---- MODULE Spec2Model ----
(***************************************************************************)
(* A model of src/app.py: the Streamlit dashboard script main().  One pass *)
(* of the script (a page load or a widget interaction) is one action.  The *)
(* state is the input file, the process-wide st.cache_data entry of        *)
(* load_and_preprocess_data, and what the last pass computed and rendered. *)
(*                                                                         *)
(* Labels are written in ASCII: "gye" is the aggregate label of the source *)
(* file (app.py line 63, first argument of replace) and "jeonguk" is the   *)
(* nationwide label (second argument).  Rates are integers in hundredths   *)
(* of a percent (6667 is 66.67), which is what round(2) keeps.             *)
(***************************************************************************)
EXTENDS Integers, Sequences, FiniteSets, TLC

VARIABLES file, cache, ev, didRead, page,
          selected_years, selected_region, selected_theme,
          display_df, kpi_df, plot_df

vars == <<file, cache, ev, didRead, page,
          selected_years, selected_region, selected_theme,
          display_df, kpi_df, plot_df>>

---------------------------------------------------------------------------
(* Bounds of the model and the input alphabet.                             *)

\* Longest input file (in rows) of the fixed-file specification.
MaxRows == 2

\* Longest input file (in rows) of the specification in which the file changes.
MaxDynRows == 2

AGGREGATE == "gye"
NATIONWIDE == "jeonguk"

RegionLabels == {AGGREGATE, NATIONWIDE, "seoul"}

YearLabels == {2023, 2024}

\* <<economically active population, employed, unemployed>> of a source row.
CountTriples == {<<0, 0, 0>>, <<0, 2, 1>>, <<3, 2, 1>>}

SourceRows ==
    { [region |-> g, year |-> y, active |-> c[1], employed |-> c[2], unemployed |-> c[3]] :
        g \in RegionLabels, y \in YearLabels, c \in CountTriples }

SeqsUpTo(S, n) == UNION { [1..k -> S] : k \in 0..n }

AbsentFile == [exists |-> FALSE, rows |-> <<>>]

FilesUpTo(n) == { [exists |-> TRUE, rows |-> s] : s \in SeqsUpTo(SourceRows, n) }

\* The rows of the files of the specification in which the file changes: one
\* year and one triple of counts, every region label.
DynSourceRows == { r \in SourceRows : r.year = 2024 /\ r.active = 3 }

DynFilesUpTo(n) == { [exists |-> TRUE, rows |-> s] : s \in SeqsUpTo(DynSourceRows, n) }

Themes == {"plotly_white", "plotly_dark"}

---------------------------------------------------------------------------
(* load_and_preprocess_data                                                *)

\* Series.replace(AGGREGATE, NATIONWIDE) on one label.
ReplaceLabel(label) == IF label = AGGREGATE THEN NATIONWIDE ELSE label

\* Membership of a value in a sequence.
InSeq(x, s) == \E i \in 1..Len(s) : s[i] = x

\* Series.drop_duplicates().tolist(): the first occurrence of each value, in order.
RECURSIVE DropDuplicates(_)
DropDuplicates(s) ==
    IF s = <<>> THEN <<>>
    ELSE LET init == DropDuplicates(SubSeq(s, 1, Len(s) - 1))
             last == s[Len(s)]
         IN IF InSeq(last, init) THEN init ELSE Append(init, last)

\* round(n / d) to the nearest integer, ties to even (numpy's round), for d > 0.
RoundHalfEven(n, d) ==
    LET q == n \div d
        r == n % d
    IN IF 2 * r < d THEN q
       ELSE IF 2 * r > d THEN q + 1
       ELSE IF q % 2 = 0 THEN q ELSE q + 1

\* Rate with a plain division: a zero denominator gives inf or nan, written -1.
Rate_PlainDivision(count, active) ==
    IF active # 0 THEN RoundHalfEven(count * 10000, active) ELSE -1

\* np.divide(count, active, out=zeros, where=active != 0) * 100, then round(2),
\* in hundredths of a percent.
Rate(count, active) ==
    IF active # 0 THEN RoundHalfEven(count * 10000, active) ELSE 0

\* One row of the table the loader returns.
LoadedRow(r) ==
    [region |-> ReplaceLabel(r.region), year |-> r.year,
     active |-> r.active, employed |-> r.employed, unemployed |-> r.unemployed,
     emp_rate |-> Rate(r.employed, r.active),
     unemp_rate |-> Rate(r.unemployed, r.active)]

\* A data frame: its rows and the dtype of its year column.
NoFrame == [defined |-> FALSE, yearDtype |-> "none", rows |-> <<>>]

\* RegionOrder with the duplicates dropped before the aggregate label is renamed.
RegionOrder_RenameAfterDedup(rows) ==
    LET firsts == DropDuplicates([i \in 1..Len(rows) |-> rows[i].region])
    IN [i \in 1..Len(firsts) |-> ReplaceLabel(firsts[i])]

\* original_region_order of the loader.
RegionOrder(rows) == DropDuplicates([i \in 1..Len(rows) |-> ReplaceLabel(rows[i].region)])

\* What load_and_preprocess_data returns when it runs against file f, with the
\* st.error element it emits when the file is absent: (None, None) is ok = FALSE.
LoadAndPreprocess(f) ==
    IF ~f.exists
    THEN [ok |-> FALSE, df |-> NoFrame, region_order |-> <<>>, elements |-> <<"error">>]
    ELSE [ok |-> TRUE,
          df |-> [defined |-> TRUE, yearDtype |-> "category",
                  rows |-> [i \in 1..Len(f.rows) |-> LoadedRow(f.rows[i])]],
          region_order |-> RegionOrder(f.rows),
          elements |-> <<>>]

\* The st.cache_data entry of the loader: empty until the first call.  src is
\* the file the cached call read (kept for the statements about reloading).
EmptyCache == [filled |-> FALSE, src |-> AbsentFile, value |-> LoadAndPreprocess(AbsentFile)]

\* @st.cache_data: the function takes no argument, so there is one entry; a
\* call runs the function only when the entry is empty and stores what it
\* returned (a failed load included); later calls return the stored value and
\* replay its elements.
CachedLoad(c, f) ==
    IF c.filled THEN c
    ELSE [filled |-> TRUE, src |-> f, value |-> LoadAndPreprocess(f)]

---------------------------------------------------------------------------
(* main(): the stages of one pass of the script                            *)

Range(s) == { s[i] : i \in 1..Len(s) }

\* sorted(S, reverse=True) of a finite set of integers.
RECURSIVE SortedDesc(_)
SortedDesc(S) ==
    IF S = {} THEN <<>>
    ELSE LET m == CHOOSE x \in S : \A y \in S : y <= x
         IN <<m>> \o SortedDesc(S \ {m})

\* all_years: the distinct years of the table, latest first.
AllYears(df) == SortedDesc({ df.rows[i].year : i \in 1..Len(df.rows) })

\* df[mask]: the rows the mask keeps, in order.
RowsWithYearIn(rows, years) == SelectSeq(rows, LAMBDA r : r.year \in years)

RowsWithRegion(rows, region) == SelectSeq(rows, LAMBDA r : r.region = region)

RowsWithoutRegion(rows, region) == SelectSeq(rows, LAMBDA r : r.region # region)

\* sort_values on the year column (ascending; equal years keep their order).
RECURSIVE SortByYear(_)
SortByYear(rows) ==
    IF rows = <<>> THEN <<>>
    ELSE LET init == SortByYear(SubSeq(rows, 1, Len(rows) - 1))
             last == rows[Len(rows)]
             keep == Cardinality({ i \in 1..Len(init) : init[i].year <= last.year })
         IN SubSeq(init, 1, keep) \o <<last>> \o SubSeq(init, keep + 1, Len(init))

\* StopAfterLoad without the st.stop().
StopAfterLoad_NoStop(value) == FALSE

\* The script halts after the load when the loader returned no table.
StopAfterLoad(value) == ~value.ok

\* StopOnEmptySelection without the st.stop().
StopOnEmptySelection_NoStop(years) == FALSE

\* The script halts after the sidebar when no year is selected.
StopOnEmptySelection(years) == years = {}

\* DisplayRows treating nationwide like any other region.
DisplayRows_NationwideFiltered(rows, years, region) ==
    RowsWithRegion(RowsWithYearIn(rows, years), region)

\* The rows of display_df for a year and region selection.
DisplayRows(rows, years, region) ==
    IF region = NATIONWIDE
    THEN RowsWithYearIn(rows, years)
    ELSE RowsWithRegion(RowsWithYearIn(rows, years), region)

\* KpiRows averaging over every region under the nationwide selection.
KpiRows_AllRegions(displayRows, region) == displayRows

\* The rows of kpi_df, taken from display_df.
KpiRows(displayRows, region) ==
    IF region = NATIONWIDE
    THEN RowsWithRegion(displayRows, NATIONWIDE)
    ELSE displayRows

\* ChartKind with the trend branch taken from one year on.
ChartKind_TrendFromOneYear(years, region) ==
    IF Cardinality(years) = 1 /\ region = NATIONWIDE THEN "regional_chart"
    ELSE IF Cardinality(years) >= 1 /\ region # NATIONWIDE THEN "trend_chart"
    ELSE "guidance"

\* Which of the three branches of the chart step runs.
ChartKind(years, region) ==
    IF Cardinality(years) = 1 /\ region = NATIONWIDE THEN "regional_chart"
    ELSE IF Cardinality(years) > 1 /\ region # NATIONWIDE THEN "trend_chart"
    ELSE "guidance"

\* The data frames of a pass: cached is the table held by the cache entry, df
\* the object the load handed to main() (st.cache_data hands out a copy).
StartFrames(value) ==
    [cached |-> value.df, df |-> value.df,
     display_df |-> NoFrame, kpi_df |-> NoFrame, plot_df |-> NoFrame]

\* Stage 4: filtered_df and display_df, both new objects.
FilterStep(fr, years, region) ==
    [fr EXCEPT !.display_df =
        [fr.df EXCEPT !.rows = DisplayRows(fr.df.rows, years, region)]]

\* Stage 5: kpi_df.
KpiStep(fr, region) ==
    [fr EXCEPT !.kpi_df =
        [fr.display_df EXCEPT !.rows = KpiRows(fr.display_df.rows, region)]]

\* Stage 6: Styler.format renders strings and leaves the frame as it is.
TableStep(fr) == fr

\* ChartStep converting the year column in place, on the table the cache holds.
ChartStep_ConvertInPlace(fr, years, region) ==
    CASE ChartKind(years, region) = "regional_chart" ->
            [fr EXCEPT !.plot_df =
                [fr.display_df EXCEPT !.rows = RowsWithoutRegion(fr.display_df.rows, NATIONWIDE)]]
      [] ChartKind(years, region) = "trend_chart" ->
            [fr EXCEPT !.cached = [fr.cached EXCEPT !.yearDtype = "int64"],
                       !.plot_df =
                [fr.display_df EXCEPT !.rows = SortByYear(fr.display_df.rows),
                                      !.yearDtype = "int64"]]
      [] OTHER -> fr

\* Stage 7: plot_df, a copy in both chart branches; the trend branch sorts the
\* copy by year and replaces its year column by pd.to_numeric of it.
ChartStep(fr, years, region) ==
    CASE ChartKind(years, region) = "regional_chart" ->
            [fr EXCEPT !.plot_df =
                [fr.display_df EXCEPT !.rows = RowsWithoutRegion(fr.display_df.rows, NATIONWIDE)]]
      [] ChartKind(years, region) = "trend_chart" ->
            [fr EXCEPT !.plot_df =
                [fr.display_df EXCEPT !.rows = SortByYear(fr.display_df.rows),
                                      !.yearDtype = "int64"]]
      [] OTHER -> fr

PageHead == <<"style", "title", "description">>

SidebarElements == <<"filter_header", "years_multiselect", "region_selectbox",
                     "theme_header", "theme_selectbox">>

\* st.sidebar.selectbox(options=region_order, index=0) before any interaction.
DefaultRegion(region_order) == region_order[1]

\* st.sidebar.multiselect(default=[all_years[0]]) before any interaction.
DefaultYears(all_years) == {all_years[1]}

\* selectbox(options=[...], index=1) of the theme list.
DefaultTheme == "plotly_white"

KpiElements(kpi) == IF kpi.rows # <<>> THEN <<"kpi_cards">> ELSE <<"kpi_info">>

\* selected_years is the list the multiselect returns, kept as the set of its
\* (distinct) members: the script uses its length and its membership (and its
\* first item in a chart title only).
\* One pass of main() against cache entry c and file f.  useDefaults says the
\* widgets hold their defaults (a new session); otherwise they hold ys, r, t.
\* The result is the new cache entry and everything the pass left behind.
Script(c, f, useDefaults, ys, r, t) ==
    LET c2 == CachedLoad(c, f)
        value == c2.value
        p1 == PageHead \o value.elements
        halted == [cache |-> c2, didRead |-> ~c.filled, page |-> p1,
                   selected_years |-> {}, selected_region |-> "none",
                   selected_theme |-> "none",
                   display_df |-> NoFrame, kpi_df |-> NoFrame, plot_df |-> NoFrame]
        all_years == AllYears(value.df)
    IN IF StopAfterLoad(value) THEN halted
       ELSE IF all_years = <<>>
       THEN \* default=[all_years[0]] raises IndexError on a table without rows
            [halted EXCEPT !.page = p1 \o <<"filter_header", "exception">>]
       ELSE
         LET years == IF useDefaults THEN DefaultYears(all_years) ELSE ys
             region == IF useDefaults THEN DefaultRegion(value.region_order) ELSE r
             theme == IF useDefaults THEN DefaultTheme ELSE t
             p2 == p1 \o SidebarElements
             chosen == [halted EXCEPT !.selected_years = years,
                                      !.selected_region = region,
                                      !.selected_theme = theme]
         IN IF StopOnEmptySelection(years)
            THEN [chosen EXCEPT !.page = p2 \o <<"warning">>]
            ELSE
              LET fr == ChartStep(TableStep(KpiStep(
                            FilterStep(StartFrames(value), years, region), region)),
                            years, region)
              IN [chosen EXCEPT
                    !.cache = [c2 EXCEPT !.value.df = fr.cached],
                    !.page = p2 \o <<"kpi_header">> \o KpiElements(fr.kpi_df)
                                \o <<"table_header", "table_caption", "table", "chart_header">>
                                \o <<ChartKind(years, region)>>,
                    !.display_df = fr.display_df,
                    !.kpi_df = fr.kpi_df,
                    !.plot_df = fr.plot_df]

---------------------------------------------------------------------------
(* The state machine                                                       *)

PassEvents == {"open", "interact"}

Apply(res, event) ==
    /\ cache' = res.cache
    /\ didRead' = res.didRead
    /\ page' = res.page
    /\ selected_years' = res.selected_years
    /\ selected_region' = res.selected_region
    /\ selected_theme' = res.selected_theme
    /\ display_df' = res.display_df
    /\ kpi_df' = res.kpi_df
    /\ plot_df' = res.plot_df
    /\ ev' = event
    /\ UNCHANGED file

\* A page load in a new session: the script runs with the widgets' defaults.
OpenSession == Apply(Script(cache, file, TRUE, {}, "none", "none"), "open")

\* The user sets the sidebar widgets of the page in front of them; the script
\* reruns with those values.  The options are the ones the last pass offered.
Interact(ys, r, t) ==
    /\ InSeq("years_multiselect", page)
    /\ ys \subseteq Range(AllYears(cache.value.df))
    /\ r \in Range(cache.value.region_order)
    /\ Apply(Script(cache, file, FALSE, ys, r, t), "interact")

\* The environment creates, replaces or removes the input file.  Changes that
\* no pass separates look to the script like one change, so one is taken
\* between two passes.
FileChange(f) ==
    /\ ev \in PassEvents
    /\ f # file
    /\ file' = f
    /\ ev' = "file"
    /\ UNCHANGED <<cache, didRead, page, selected_years, selected_region,
                   selected_theme, display_df, kpi_df, plot_df>>

InitWith(files) ==
    /\ file \in files
    /\ cache = EmptyCache
    /\ ev = "init"
    /\ didRead = FALSE
    /\ page = <<>>
    /\ selected_years = {}
    /\ selected_region = "none"
    /\ selected_theme = "none"
    /\ display_df = NoFrame
    /\ kpi_df = NoFrame
    /\ plot_df = NoFrame

DynFiles == DynFilesUpTo(MaxDynRows) \cup {AbsentFile}

FixedFiles == FilesUpTo(MaxRows) \cup {AbsentFile}

Init == InitWith(DynFiles)

Next ==
    \/ OpenSession
    \/ \E ys \in SUBSET YearLabels, r \in RegionLabels, t \in Themes : Interact(ys, r, t)
    \/ \E f \in DynFiles : FileChange(f)

\* The file may change between passes.
Spec == Init /\ [][Next]_vars

InitFixedFile == InitWith(FixedFiles)

NextFixedFile ==
    \/ OpenSession
    \/ \E ys \in SUBSET YearLabels, r \in RegionLabels, t \in Themes : Interact(ys, r, t)

\* The file stays as it is while the process runs.
SpecFixedFile == InitFixedFile /\ [][NextFixedFile]_vars

---------------------------------------------------------------------------
(* Vocabulary of the properties                                            *)

\* The rows of a table at the positions idx, in the table's order.
RECURSIVE RowsAt(_, _)
RowsAt(rows, idx) ==
    IF idx = {} THEN <<>>
    ELSE LET m == CHOOSE i \in idx : \A j \in idx : j <= i
         IN Append(RowsAt(rows, idx \ {m}), rows[m])

\* How often row x occurs in rows.
Occ(rows, x) == Cardinality({ i \in 1..Len(rows) : rows[i] = x })

\* The first position of x in s (0 when x does not occur).
FirstIndex(s, x) ==
    IF InSeq(x, s) THEN CHOOSE i \in 1..Len(s) : s[i] = x /\ \A j \in 1..(i - 1) : s[j] # x
    ELSE 0

\* The place of x among the distinct values of s taken in first-occurrence order.
PlaceInFirstOccurrenceOrder(s, x) ==
    Cardinality({ s[i] : i \in 1..FirstIndex(s, x) })

LoadedRows == cache.value.df.rows

SourceLabels == [i \in 1..Len(cache.src.rows) |-> cache.src.rows[i].region]

RenamedLabels == [i \in 1..Len(SourceLabels) |-> ReplaceLabel(SourceLabels[i])]

ChartOutcomes == {"regional_chart", "trend_chart", "guidance"}

ComputationElements ==
    {"kpi_header", "kpi_cards", "kpi_info", "table_header", "table_caption",
     "table", "chart_header"} \cup ChartOutcomes

---------------------------------------------------------------------------
(* C1: for a non-empty year selection the chart step runs and produces     *)
(* exactly one of its three outcomes: the regional-comparison chart iff    *)
(* one year is selected and the region is nationwide, the trend chart iff  *)
(* more than one year is selected and the region is not nationwide, the    *)
(* guidance message (and no chart) in the two remaining cases.             *)
C1_ChartSelection ==
    LET one == Cardinality(selected_years) = 1
        many == Cardinality(selected_years) > 1
        nat == selected_region = NATIONWIDE
    IN /\ (ev \in PassEvents /\ selected_years # {}) => InSeq("chart_header", page)
       /\ InSeq("chart_header", page) =>
            /\ selected_years # {}
            /\ Cardinality({ i \in 1..Len(page) : page[i] \in ChartOutcomes }) = 1
            /\ InSeq("regional_chart", page) <=> (one /\ nat)
            /\ InSeq("trend_chart", page) <=> (many /\ ~nat)
            /\ InSeq("guidance", page) <=> ((one /\ ~nat) \/ (many /\ nat))
            /\ InSeq("guidance", page) <=> ~plot_df.defined

C1_Witness ==
    /\ InSeq("trend_chart", page)
    /\ Cardinality(selected_years) = 2
    /\ selected_region # NATIONWIDE

(* C2: under the nationwide selection kpi_df holds exactly the loaded rows *)
(* labelled nationwide whose year is selected while display_df holds the   *)
(* rows of every region for the selected years; under a specific region    *)
(* kpi_df equals display_df.                                               *)
C2_KpiSubset ==
    kpi_df.defined =>
        IF selected_region = NATIONWIDE
        THEN /\ kpi_df.rows = RowsAt(LoadedRows,
                    { i \in 1..Len(LoadedRows) :
                        /\ LoadedRows[i].region = NATIONWIDE
                        /\ LoadedRows[i].year \in selected_years })
             /\ display_df.rows = RowsAt(LoadedRows,
                    { i \in 1..Len(LoadedRows) : LoadedRows[i].year \in selected_years })
        ELSE kpi_df = display_df

C2_Witness ==
    /\ selected_region = NATIONWIDE
    /\ kpi_df.defined
    /\ kpi_df.rows # <<>>
    /\ Len(kpi_df.rows) < Len(display_df.rows)

(* C5: a pass whose year selection is empty ends with the warning; the     *)
(* filter, the KPI summary, the table and the chart step do not run.       *)
C5_EmptySelectionHalts ==
    (ev \in PassEvents /\ InSeq("years_multiselect", page) /\ selected_years = {}) =>
        /\ page[Len(page)] = "warning"
        /\ ~display_df.defined /\ ~kpi_df.defined /\ ~plot_df.defined
        /\ \A i \in 1..Len(page) : page[i] \notin ComputationElements

C5_Witness ==
    /\ ev = "interact"
    /\ selected_years = {}
    /\ InSeq("warning", page)
    /\ LoadedRows # <<>>

(* C9: display_df is exactly the loaded rows whose year is selected and,   *)
(* for a specific region, whose region is the selected one; the rows for   *)
(* (Y, nationwide) include every row for (Y, R); a selection that matches  *)
(* no row gives an empty display_df and the pass still completes.          *)
C9_DisplaySubset ==
    /\ display_df.defined =>
         /\ display_df.rows = RowsAt(LoadedRows,
                { i \in 1..Len(LoadedRows) :
                    /\ LoadedRows[i].year \in selected_years
                    /\ (selected_region = NATIONWIDE \/ LoadedRows[i].region = selected_region) })
         /\ page[Len(page)] \in ChartOutcomes
    /\ cache.value.ok =>
         \A Y \in (SUBSET YearLabels) \ {{}}, R \in RegionLabels \ {NATIONWIDE} :
            LET specific == DisplayRows(LoadedRows, Y, R)
                whole == DisplayRows(LoadedRows, Y, NATIONWIDE)
            IN \A i \in 1..Len(specific) : Occ(specific, specific[i]) <= Occ(whole, specific[i])

C9_Witness ==
    /\ selected_region # NATIONWIDE
    /\ display_df.defined
    /\ display_df.rows # <<>>
    /\ Len(display_df.rows) < Len(DisplayRows(LoadedRows, selected_years, NATIONWIDE))

(* C10: the table held by the cache stays what the load produced, through  *)
(* every pass (table rendering, either chart, the numeric year column).    *)
C10_CacheNeverMutated ==
    cache.filled => cache.value = LoadAndPreprocess(cache.src)

C10_Witness ==
    /\ InSeq("trend_chart", page)
    /\ plot_df.yearDtype = "int64"
    /\ cache.value.df.yearDtype = "category"
    /\ ev = "interact"

(* C8: every loaded row whose economically active population is 0 has     *)
(* both rates equal to 0, whatever its two counts; the load of a present   *)
(* file yields a table and every rate in it is a number of its range.      *)
C8_ZeroActiveRatesZero ==
    cache.filled =>
        /\ cache.src.exists => cache.value.ok
        /\ \A i \in 1..Len(LoadedRows) :
              /\ LoadedRows[i].active = 0 =>
                    LoadedRows[i].emp_rate = 0 /\ LoadedRows[i].unemp_rate = 0
              /\ LoadedRows[i].emp_rate >= 0 /\ LoadedRows[i].unemp_rate >= 0

C8_Witness ==
    /\ ev \in PassEvents
    /\ \E i \in 1..Len(LoadedRows) :
          /\ LoadedRows[i].active = 0
          /\ LoadedRows[i].employed > 0
          /\ LoadedRows[i].unemployed > 0
          /\ LoadedRows[i].emp_rate = 0

(* C7, as amended: the region order holds each renamed label once, in the  *)
(* order of first occurrence of the renamed labels; the nationwide label   *)
(* stands at the place of the first row labelled aggregate or nationwide,  *)
(* which is the place the aggregate label had among the source labels      *)
(* whenever the source has no nationwide label of its own.                 *)
C7_RegionOrder ==
    (cache.filled /\ cache.value.ok) =>
        LET ro == cache.value.region_order
        IN /\ \A i, j \in 1..Len(ro) : i # j => ro[i] # ro[j]
           /\ Range(ro) = Range(RenamedLabels)
           /\ \A i, j \in 1..Len(ro) :
                 i < j => FirstIndex(RenamedLabels, ro[i]) < FirstIndex(RenamedLabels, ro[j])
           /\ FirstIndex(ro, NATIONWIDE) = PlaceInFirstOccurrenceOrder(RenamedLabels, NATIONWIDE)
           /\ (InSeq(AGGREGATE, SourceLabels) /\ ~InSeq(NATIONWIDE, SourceLabels)) =>
                 FirstIndex(ro, NATIONWIDE) = PlaceInFirstOccurrenceOrder(SourceLabels, AGGREGATE)

C7_Witness ==
    /\ ev = "interact"
    /\ cache.value.ok
    /\ FirstIndex(SourceLabels, AGGREGATE) = 2
    /\ ~InSeq(NATIONWIDE, SourceLabels)
    /\ cache.value.region_order[2] = NATIONWIDE

(* C7 as claimed: the nationwide label stands at the place the aggregate   *)
(* label had in the first-occurrence order of the source labels.           *)
C7_NationwideAtAggregatePlace ==
    (cache.filled /\ cache.value.ok /\ InSeq(AGGREGATE, SourceLabels)) =>
        FirstIndex(cache.value.region_order, NATIONWIDE)
            = PlaceInFirstOccurrenceOrder(SourceLabels, AGGREGATE)

(* C6 as claimed: in a new session the region selector shows the           *)
(* nationwide label, and its options are the discovered region order.      *)
C6_DefaultRegionNationwide ==
    (ev = "open" /\ InSeq("region_selectbox", page)) =>
        /\ selected_region = NATIONWIDE
        /\ selected_region \in Range(cache.value.region_order)

(* C4, as amended: when the load yields no table (the file was absent when *)
(* it was read) the error is reported and the pass halts; the page holds   *)
(* the style block, the title and the description rendered before the      *)
(* load, then the error, and nothing else: no filter control, summary      *)
(* card, table, chart or guidance.                                         *)
C4_LoadFailureHalts ==
    (ev \in PassEvents /\ ~cache.value.ok) =>
        /\ ~cache.src.exists
        /\ page[Len(page)] = "error"
        /\ \A i \in 1..Len(page) : page[i] \in {"style", "title", "description", "error"}
        /\ Cardinality({ i \in 1..Len(page) : page[i] = "error" }) = 1
        /\ selected_years = {} /\ selected_region = "none" /\ selected_theme = "none"
        /\ ~display_df.defined /\ ~kpi_df.defined /\ ~plot_df.defined

C4_Witness ==
    /\ ev = "open"
    /\ ~file.exists
    /\ didRead
    /\ InSeq("error", page)

(* C4 as claimed: with the file absent, no page element other than the     *)
(* error is rendered.                                                      *)
C4_OnlyTheErrorRendered ==
    (ev \in PassEvents /\ didRead /\ ~file.exists) =>
        /\ InSeq("error", page)
        /\ \A i \in 1..Len(page) : page[i] = "error"

(* C3 as claimed: the first pass reads the file; a later pass returns the  *)
(* cached table when the file is as the cached load read it and reads the  *)
(* file again when it has changed since (a file that has appeared too).    *)
C3_ReloadsWhenFileChanged ==
    [][ev' \in PassEvents => (didRead' <=> (~cache.filled \/ cache.src # file))]_vars

====
